---------------------------- MODULE Spec2Model ----------------------------
(***************************************************************************)
(* rcp::Recipe (src/src/Persistence): a registry of named application      *)
(* variables bound to a length-prefixed binary file.                       *)
(*                                                                         *)
(* Strings that make up the path are sequences of one-character strings;   *)
(* identifiers, variable memory and file contents are sequences of bytes   *)
(* (naturals below 256).  The file system is a map from the paths that     *)
(* exist to a directory or a file with its bytes.  load_recipe is modelled *)
(* one pass of its read loop at a time, with the stream's position and     *)
(* state bits; every other member function is one step.                    *)
(***************************************************************************)
EXTENDS Integers, Sequences, FiniteSets, TLC

(***************************************************************************)
(* Bounds of the model.                                                    *)
(***************************************************************************)
\* The number of entries of the longest hand-written record the environment
\* puts at the path.
MaxCrafted == 2

\* sizeof(size_t): the width of the two length fields of an entry.
SizeT == 8

(***************************************************************************)
(* Path strings.                                                           *)
(***************************************************************************)
Sep == "/"
Dot == "."

\* The extension a default-constructed Recipe starts with, ".rcp".
DefaultExtension == <<".", "r", "c", "p">>

\* Arguments the caller passes to the constructor and the setters.
NameArgs == {<<"n">>}
FolderArgs == {<<"d">>}
ExtensionArgs == {<<"r", "c", "p">>}
\* The three-argument constructor stores its arguments as given: a folder
\* without and with its separator.
CtorFolderArgs == {<<"d">>, <<"d", "/">>}
CtorExtensionArgs == {DefaultExtension}

(***************************************************************************)
(* Identifiers, application variables, bytes.                              *)
(***************************************************************************)
\* "a" and "bb": identifiers of odd and even length.
Ids == {<<97>>, <<98, 98>>}

\* The application's variables and sizeof each.
Vars == {"v1", "v2"}
SizeOf == [v \in Vars |-> IF v = "v1" THEN 1 ELSE 2]

\* Byte values the application stores in its variables, and the values it
\* assigns: one byte value throughout.
AppBytes == {0, 1}
ValuesOf(n) == {[i \in 1..n |-> b] : b \in AppBytes}

\* Payloads of hand-written entries.
CraftedValues == {<<1, 1>>}

(***************************************************************************)
(* Indeterminate values: an uninitialised size_t, an uninitialised char,   *)
(* the content of a fresh new char[n].                                     *)
(***************************************************************************)
HugeWord == [i \in 1..SizeT |-> 255]
WordOf(n) == [i \in 1..SizeT |-> IF i = 1 THEN n ELSE 0]
Garbage == [word : {WordOf(0), WordOf(1), WordOf(2), HugeWord},
            ch   : {0, 97},
            fill : AppBytes]
Garbage0 == [word |-> WordOf(0), ch |-> 0, fill |-> 0]

(***************************************************************************)
(* size_t as it lies in memory and in the file (little-endian).            *)
(***************************************************************************)
\* A count with a byte above the lowest set is more than the process can
\* allocate or loop over: new char[n] throws std::bad_alloc, and the loop
\* that reads the identifier exhausts memory.
too_big(w) == \E i \in 2..SizeT : w[i] # 0

\* The value of a size_t that is not too big.
LE(w) == w[1]

RECURSIVE Bytes(_, _)
Bytes(n, k) == IF k = 0 THEN <<>> ELSE <<n % 256>> \o Bytes(n \div 256, k - 1)

\* file.write((char*)&n, sizeof(n))
Word(n) == Bytes(n, SizeT)

Min(a, b) == IF a < b THEN a ELSE b

(***************************************************************************)
(* The state.                                                              *)
(***************************************************************************)
VARIABLES
    _folder, _extension, _name, \* Recipe's path members
    _map,         \* id -> [ptr, size]
    _init,        \* the initialized flag
    mem,          \* the application's variables: Vars -> bytes
    fs,           \* the file system: path -> node
    pc,           \* "idle", "load" (inside load_recipe's loop), "crashed"
    file,         \* load_recipe's ifstream: [data, pos, eof, fail]
    size,         \* load_recipe's local size_t: [set, w]
    character,    \* load_recipe's local char: [set, c]
    op, ret,      \* the call made last (init, save_recipe, load_recipe,
                  \* add_variable, remove_variable; any other step leaves
                  \* "other") and what it returned
    memAtCall,    \* mem when the running or last load_recipe was called
    saved,        \* [on, mem]: on since a save_recipe (mem: the variables
                  \* then) followed only by zeroing variables and a load
    lifecycle,    \* whether the last of construction, init, stop and the
                  \* setters was an init that returned true
    reinit,       \* a setter ran and no init has succeeded since
    io            \* what the last init or save_recipe met in the file system

vars == <<_folder, _extension, _name, _map, _init, mem, fs, pc, file, size,
          character, op, ret, memAtCall, saved, lifecycle, reinit, io>>

recipe == <<_folder, _extension, _name, _map, _init>>
locals == <<file, size, character>>

NoFile == [data |-> <<>>, pos |-> 0, eof |-> FALSE, fail |-> FALSE]
Unset == [set |-> FALSE, w |-> <<>>]
UnsetChar == [set |-> FALSE, c |-> 0]
NoMem == [v \in Vars |-> <<>>]
NoSave == [on |-> FALSE, mem |-> NoMem]
\* What a call returned: "void", or the boolean as "true" or "false".
Void == "void"
Returns(b) == IF b THEN "true" ELSE "false"

\* What the environment does to the file-system calls of init: nothing, or
\* it fails the creation of a directory, or it fails the opening of the new
\* file for writing (permissions, a full disk).
Faults == {"none", "mkdir", "open"}

(***************************************************************************)
(* The file system.                                                        *)
(***************************************************************************)
Dir == [kind |-> "dir"]
\* The empty map (no path exists, no identifier is registered).
NoNodes == [q \in {} |-> Dir]
\* A file: its bytes, whether it is read-only (ro) and, for the record of
\* what was put there, the complete entries the bytes encode (ents) and
\* whether they end inside a further entry (cut).
FileNode(data, ents, cut, ro) ==
    [kind |-> "file", data |-> data, ents |-> ents, cut |-> cut, ro |-> ro]

exists(p) == p \in DOMAIN fs
IsFile(p) == exists(p) /\ fs[p].kind = "file"
IsDir(p) == exists(p) /\ fs[p].kind = "dir"

\* std::filesystem::path::parent_path: what precedes the last separator.
RECURSIVE parent_path(_)
parent_path(p) ==
    IF p = <<>> THEN <<>>
    ELSE IF p[Len(p)] = Sep THEN SubSeq(p, 1, Len(p) - 1)
    ELSE parent_path(SubSeq(p, 1, Len(p) - 1))

\* p and its ancestors, the directories create_directories(p) makes.
RECURSIVE Chain(_)
Chain(p) == IF p = <<>> THEN {} ELSE {p} \cup Chain(parent_path(p))

\* Recipe::get_path
get_path == _folder \o _name \o _extension

(***************************************************************************)
(* Construction: Recipe() and Recipe(name, folder, extension).             *)
(***************************************************************************)
Constructed(n, f, e) ==
    /\ _name = n
    /\ _folder = f
    /\ _extension = e
    /\ _init = FALSE
    /\ _map = NoNodes

Init ==
    /\ \/ Constructed(<<>>, <<>>, DefaultExtension)
       \/ \E n \in NameArgs, f \in CtorFolderArgs, e \in CtorExtensionArgs :
              Constructed(n, f, e)
    /\ mem = [v \in Vars |-> [i \in 1..SizeOf[v] |-> 0]]
    /\ fs = NoNodes
    /\ pc = "idle"
    /\ file = NoFile
    /\ size = Unset
    /\ character = UnsetChar
    /\ op = "other"
    /\ ret = Void
    /\ memAtCall = NoMem
    /\ saved = NoSave
    /\ lifecycle = FALSE
    /\ reinit = FALSE
    /\ io = "none"


(***************************************************************************)
(* File-system calls.  f is the file system they act on.                   *)
(***************************************************************************)
\* std::filesystem::create_directories(dir): throws filesystem_error for the
\* empty path, when a component is a file, or when the environment refuses;
\* otherwise every missing component becomes a directory.
create_directories(f, dir, fault) ==
    LET chain == Chain(dir)
        throws == \/ dir = <<>>
                  \/ \E q \in chain : q \in DOMAIN f /\ f[q].kind = "file"
                  \/ fault = "mkdir" /\ \E q \in chain : q \notin DOMAIN f
    IN  [throws |-> throws,
         fs |-> IF throws THEN f
                ELSE [q \in DOMAIN f \cup chain |->
                        IF q \in DOMAIN f THEN f[q] ELSE Dir]]

\* Whether std::ofstream::open(p) succeeds: p is no directory and no
\* read-only file, its parent directory is there, and the environment lets
\* it.  A failed open throws
\* nothing; the stream only ignores what is written to it.
ofstream_open(f, p, fault) ==
    /\ ~(p \in DOMAIN f /\ f[p].kind = "dir")
    /\ ~(p \in DOMAIN f /\ f[p].kind = "file" /\ f[p].ro)
    /\ \/ parent_path(p) = <<>>
       \/ parent_path(p) \in DOMAIN f /\ f[parent_path(p)].kind = "dir"
    /\ fault # "open"

\* The file system with the bytes data at p.
Put(f, p, node) == [q \in DOMAIN f \cup {p} |-> IF q = p THEN node ELSE f[q]]

\* Whether std::ifstream::open(p) gives a stream that can be read.
ifstream_open(f, p) == p \in DOMAIN f /\ f[p].kind = "file"

(***************************************************************************)
(* Recipe::init                                                            *)
(***************************************************************************)
\* An init without the test of the name.
init_outcome_any_name(fault) ==
    LET p == get_path
        made == create_directories(fs, parent_path(p), fault)
    IN  CASE exists(p) -> "exists"
          [] made.throws -> "mkdir_failed"
          [] ~ofstream_open(made.fs, p, fault) -> "create_failed"
          [] OTHER -> "created"

\* What init meets, in the order of its branches.
init_outcome(fault) ==
    LET p == get_path
        made == create_directories(fs, parent_path(p), fault)
    IN  CASE _name = <<>> -> "no_name"
          [] exists(p) -> "exists"
          [] made.throws -> "mkdir_failed"
          [] ~ofstream_open(made.fs, p, fault) -> "create_failed"
          [] OTHER -> "created"

\* The flag after init: unchanged by the early return, false only in the
\* catch block.
init_flag(outcome) ==
    CASE outcome = "no_name" -> _init
      [] outcome = "exists" -> TRUE
      [] outcome = "mkdir_failed" -> FALSE
      [] OTHER -> TRUE

\* An init that opens the file for writing when it exists, too.
init_fs_truncates(outcome, fault) ==
    LET p == get_path
        made == create_directories(fs, parent_path(p), fault).fs
    IN  CASE outcome = "created" -> Put(made, p, FileNode(<<>>, <<>>, FALSE, FALSE))
          [] outcome = "create_failed" -> made
          [] outcome = "exists" -> Put(fs, p, FileNode(<<>>, <<>>, FALSE, FALSE))
          [] OTHER -> fs

\* The file system after init.
init_fs(outcome, fault) ==
    LET p == get_path
        made == create_directories(fs, parent_path(p), fault).fs
    IN  CASE outcome = "created" -> Put(made, p, FileNode(<<>>, <<>>, FALSE, FALSE))
          [] outcome = "create_failed" -> made
          [] OTHER -> fs

\* The value init returns: false from the early return, else the flag.
init_return(outcome) ==
    IF outcome = "no_name" THEN FALSE ELSE init_flag(outcome)

init ==
    /\ pc = "idle"
    /\ \E fault \in Faults :
        LET outcome == init_outcome(fault) IN
        /\ _init' = init_flag(outcome)
        /\ fs' = init_fs(outcome, fault)
        /\ ret' = Returns(init_return(outcome))
        /\ io' = outcome
        /\ lifecycle' = init_return(outcome)
        /\ reinit' = (reinit /\ ~init_return(outcome))
    /\ op' = "init"
    /\ memAtCall' = NoMem
    /\ saved' = NoSave
    /\ UNCHANGED <<_folder, _extension, _name, _map, mem, pc, locals>>

(***************************************************************************)
(* Recipe::stop and the setters, which call it.                            *)
(***************************************************************************)
\* A stop() that leaves the flag as it is.
stop_flag_kept == _init

\* The flag after stop().
stop_flag == FALSE

stop ==
    /\ pc = "idle"
    /\ _init' = stop_flag
    /\ op' = "other"
    /\ ret' = Void
    /\ lifecycle' = FALSE
    /\ memAtCall' = NoMem
    /\ saved' = NoSave
    /\ io' = "none"
    /\ UNCHANGED <<_folder, _extension, _name, _map, mem, fs, pc, locals, reinit>>

\* What a setter leaves besides the member it sets.
Setter ==
    /\ pc = "idle"
    /\ _init' = stop_flag
    /\ op' = "other"
    /\ ret' = Void
    /\ lifecycle' = FALSE
    /\ reinit' = TRUE
    /\ memAtCall' = NoMem
    /\ saved' = NoSave
    /\ io' = "none"
    /\ UNCHANGED <<_map, mem, fs, pc, locals>>

set_name(n) ==
    /\ _name' = n
    /\ Setter
    /\ UNCHANGED <<_folder, _extension>>

\* folder + ((folder != "" && folder.back() != '/') ? "/" : "")
folder_of(f) ==
    f \o (IF f # <<>> /\ f[Len(f)] # Sep THEN <<Sep>> ELSE <<>>)

set_folder(f) ==
    /\ _folder' = folder_of(f)
    /\ Setter
    /\ UNCHANGED <<_name, _extension>>

\* ((extension != "" && extension.front() != '.') ? "." : "") + extension
extension_of(e) ==
    (IF e # <<>> /\ e[1] # Dot THEN <<Dot>> ELSE <<>>) \o e

set_extension(e) ==
    /\ _extension' = extension_of(e)
    /\ Setter
    /\ UNCHANGED <<_name, _folder>>

(***************************************************************************)
(* Recipe::is_init and Recipe::get_path as calls.                          *)
(***************************************************************************)
\* Both return a value computed from the members and change none.
Query ==
    /\ pc = "idle"
    /\ op' = "other"
    /\ ret' = Void
    /\ memAtCall' = NoMem
    /\ saved' = NoSave
    /\ io' = "none"
    /\ UNCHANGED <<recipe, mem, fs, pc, locals, lifecycle, reinit>>

is_init == Query

call_get_path == Query


(***************************************************************************)
(* Recipe::add_variable, Recipe::remove_variable                           *)
(***************************************************************************)
\* _map.emplace(id, item) with item->ptr = var, item->size = n.
emplace(id, var, n) ==
    [k \in DOMAIN _map \cup {id} |->
        IF k = id THEN [ptr |-> var, size |-> n] ELSE _map[k]]

\* An erase that empties the registry.
erase_all(id) == [k \in {} |-> _map[k]]

\* _map.erase(id)
erase(id) == [k \in DOMAIN _map \ {id} |-> _map[k]]

Registry(which) ==
    /\ pc = "idle"
    /\ op' = which
    /\ memAtCall' = NoMem
    /\ saved' = NoSave
    /\ io' = "none"
    /\ UNCHANGED <<_folder, _extension, _name, _init, mem, fs, pc, locals,
                   lifecycle, reinit>>

\* An add_variable that replaces the binding of a registered identifier.
add_variable_overwrite(id, var, n) ==
    /\ _map' = emplace(id, var, n)
    /\ ret' = "true"
    /\ Registry("add_variable")

add_variable(id, var, n) ==
    /\ _map' = IF id \in DOMAIN _map THEN _map ELSE emplace(id, var, n)
    /\ ret' = Returns(id \notin DOMAIN _map)
    /\ Registry("add_variable")

remove_variable(id) ==
    /\ _map' = IF id \notin DOMAIN _map THEN _map ELSE erase(id)
    /\ ret' = Returns(id \in DOMAIN _map)
    /\ Registry("remove_variable")

\* The variables some identifier is bound to.
Bound == {_map[k].ptr : k \in DOMAIN _map}

(***************************************************************************)
(* The application writes one of its variables.                            *)
(***************************************************************************)
assign(var, bytes) ==
    /\ pc = "idle"
    /\ mem' = [mem EXCEPT ![var] = bytes]
    /\ op' = "other"
    /\ ret' = Void
    /\ memAtCall' = NoMem
    /\ io' = "none"
    /\ saved' = IF \A i \in 1..Len(bytes) : bytes[i] = 0 THEN saved ELSE NoSave
    /\ UNCHANGED <<recipe, fs, pc, locals, lifecycle, reinit>>

(***************************************************************************)
(* The record format, as save_recipe writes it.                            *)
(***************************************************************************)
\* An entry written without its padding byte.
entry_bytes_unpadded(id, val) ==
    Word(Len(id)) \o id \o Word(Len(val)) \o val

\* One entry: id length, id, value length, value, and a zero byte when the
\* two lengths add up to an odd number.
entry_bytes(id, val) ==
    Word(Len(id)) \o id \o Word(Len(val)) \o val
        \o (IF (Len(id) + Len(val)) % 2 # 0 THEN <<0>> ELSE <<>>)

RECURSIVE record_bytes(_)
record_bytes(ents) ==
    IF ents = <<>> THEN <<>>
    ELSE entry_bytes(ents[1].id, ents[1].val) \o record_bytes(Tail(ents))

\* The orders in which for (auto var : _map) may visit the identifiers.
Orders(S) ==
    {o \in [1..Cardinality(S) -> S] :
        \A i, j \in 1..Cardinality(S) : i # j => o[i] # o[j]}

(***************************************************************************)
(* Recipe::save_recipe                                                     *)
(***************************************************************************)
\* A save_recipe without its guard.
save_never_refused == FALSE

\* if (!this->_init) {return false;}
save_refused == ~_init

\* What the loop writes, visiting the identifiers in the given order.
save_entries(order) ==
    [i \in 1..Len(order) |->
        [id |-> order[i],
         val |-> SubSeq(mem[_map[order[i]].ptr], 1, _map[order[i]].size)]]

\* A save_recipe that opens the file to append.
save_fs_append(order, opened) ==
    IF opened
    THEN Put(fs, get_path,
             FileNode((IF IsFile(get_path) THEN fs[get_path].data ELSE <<>>)
                          \o record_bytes(save_entries(order)),
                      (IF IsFile(get_path) THEN fs[get_path].ents ELSE <<>>)
                          \o save_entries(order),
                      IsFile(get_path) /\ fs[get_path].cut, FALSE))
    ELSE fs

\* The file system after the stream is opened, written and closed: opening
\* truncates, and a stream that failed to open writes nothing.
save_fs(order, opened) ==
    IF opened
    THEN Put(fs, get_path,
             FileNode(record_bytes(save_entries(order)),
                      save_entries(order), FALSE, FALSE))
    ELSE fs

save_recipe ==
    /\ pc = "idle"
    /\ \E order \in Orders(DOMAIN _map) :
        LET opened == ofstream_open(fs, get_path, "none") IN
        IF save_refused
        THEN /\ ret' = "false"
             /\ fs' = fs
             /\ io' = "none"
             /\ saved' = NoSave
        ELSE /\ ret' = "true"
             /\ fs' = save_fs(order, opened)
             /\ io' = IF opened THEN "written" ELSE "open_failed"
             /\ saved' = [on |-> TRUE, mem |-> mem]
    /\ op' = "save_recipe"
    /\ memAtCall' = NoMem
    /\ UNCHANGED <<recipe, mem, pc, locals, lifecycle, reinit>>


(***************************************************************************)
(* std::ifstream, as load_recipe uses it.                                  *)
(***************************************************************************)
\* The stream after open(p).  A path that is missing or a directory gives a
\* stream that is never good and never at end of file.
ifstream(p) ==
    IF ifstream_open(fs, p)
    THEN [data |-> fs[p].data, pos |-> 0, eof |-> FALSE, fail |-> FALSE]
    ELSE [data |-> <<>>, pos |-> 0, eof |-> FALSE, fail |-> TRUE]

\* peek(): on a stream that is not good it sets failbit; at the end of the
\* data it sets eofbit.
peek(st) ==
    IF st.eof \/ st.fail THEN [st EXCEPT !.fail = TRUE]
    ELSE IF st.pos = Len(st.data) THEN [st EXCEPT !.eof = TRUE]
    ELSE st

\* read(buf, n): the stream after it and the bytes it stored in buf.  On a
\* stream that is not good it stores nothing; short of n bytes it stores
\* what is left and sets eofbit and failbit.
read(st, n) ==
    IF st.eof \/ st.fail
    THEN [st |-> [st EXCEPT !.fail = TRUE], got |-> <<>>]
    ELSE LET k == Min(n, Len(st.data) - st.pos) IN
         [st |-> [st EXCEPT !.pos = st.pos + k,
                            !.eof = (k < n),
                            !.fail = (k < n)],
          got |-> SubSeq(st.data, st.pos + 1, st.pos + k)]

\* The eight bytes of a size_t after a read that stored `got` over them.
overlay(w, got) == [i \in 1..SizeT |-> IF i <= Len(got) THEN got[i] ELSE w[i]]

(***************************************************************************)
(* Recipe::load_recipe                                                     *)
(***************************************************************************)
\* A load_recipe without its guard.
load_never_refused == FALSE

\* if (!this->_init) {return false;}
load_refused == ~_init

\* while (file.peek(), !file.eof())
loop_condition == ~peek(file).eof

\* A loop that never reads a padding byte.
padded_never(w1, w2) == FALSE

\* Whether the padding byte is read: num_bytes % 2 != 0, where num_bytes is
\* the sum of the two lengths modulo 2^64, odd exactly when the sum of their
\* lowest bytes is.
padded(w1, w2) == (w1[1] + w2[1]) % 2 # 0

\* One pass of the loop up to the look-up: the reads, in order.  g gives the
\* values of what the pass uses uninitialised.
pass(g) ==
    LET st0 == peek(file)
        r1 == read(st0, SizeT)
        w1 == overlay(IF size.set THEN size.w ELSE g.word, r1.got)
        n1 == IF too_big(w1) THEN 0 ELSE LE(w1)
        r2 == read(r1.st, n1)
        c0 == IF character.set THEN character.c ELSE g.ch
        c1 == IF r2.got # <<>> THEN r2.got[Len(r2.got)] ELSE c0
        id == r2.got \o [i \in 1..(n1 - Len(r2.got)) |-> c1]
        r3 == read(r2.st, SizeT)
        w2 == overlay(w1, r3.got)
        n2 == IF too_big(w2) THEN 0 ELSE LE(w2)
        r4 == read(r3.st, n2)
        data == r4.got \o [i \in 1..(n2 - Len(r4.got)) |-> g.fill]
        r5 == IF padded(w1, w2) THEN read(r4.st, 1)
              ELSE [st |-> r4.st, got |-> <<>>]
        c2 == IF r5.got # <<>> THEN r5.got[1] ELSE c1
        used == (n1 > Len(r2.got)) \/ r2.got # <<>> \/ r5.got # <<>>
    IN  [crash |-> too_big(w1) \/ too_big(w2),
         file |-> r5.st,
         size |-> [set |-> TRUE, w |-> w2],
         character |-> IF used \/ character.set
                       THEN [set |-> TRUE, c |-> c2] ELSE character,
         id |-> id, n |-> n2, data |-> data]

\* A copy without the comparison of the two lengths.
load_copy_any_size(id, n, data) ==
    IF id \notin DOMAIN _map THEN mem
    ELSE [mem EXCEPT ![_map[id].ptr] =
            [i \in 1..Len(@) |-> IF i <= n THEN data[i] ELSE @[i]]]

\* A copy into whatever is registered with the length read, without the
\* look-up of the identifier.
load_copy_by_size(id, n, data) ==
    [v \in Vars |->
        IF \E k \in DOMAIN _map : _map[k].ptr = v /\ _map[k].size = n
        THEN [i \in 1..Len(mem[v]) |-> IF i <= n THEN data[i] ELSE mem[v][i]]
        ELSE mem[v]]

\* A copy that leaves a variable this load_recipe has written already.
load_copy_first_wins(id, n, data) ==
    IF id \notin DOMAIN _map THEN mem
    ELSE IF _map[id].size # n THEN mem
    ELSE IF mem[_map[id].ptr] # memAtCall[_map[id].ptr] THEN mem
    ELSE [mem EXCEPT ![_map[id].ptr] =
            [i \in 1..Len(@) |-> IF i <= n THEN data[i] ELSE @[i]]]

\* The look-up and the copy: the variables after a pass that read id, a
\* value length n and the payload data.
load_copy(id, n, data) ==
    IF id \notin DOMAIN _map THEN mem
    ELSE IF _map[id].size # n THEN mem
    ELSE [mem EXCEPT ![_map[id].ptr] =
            [i \in 1..Len(@) |-> IF i <= n THEN data[i] ELSE @[i]]]

\* The call, up to the loop.
load_recipe_call ==
    /\ pc = "idle"
    /\ op' = "load_recipe"
    /\ memAtCall' = mem
    /\ io' = "none"
    /\ IF load_refused
       THEN /\ ret' = "false"
            /\ saved' = NoSave
            /\ UNCHANGED <<pc, locals>>
       ELSE /\ ret' = Void
            /\ pc' = "load"
            /\ file' = ifstream(get_path)
            /\ size' = Unset
            /\ character' = UnsetChar
            /\ saved' = saved
    /\ UNCHANGED <<recipe, mem, fs, lifecycle, reinit>>

\* One pass of the loop.  A count beyond what can be allocated ends the
\* process (std::bad_alloc leaves load_recipe).
load_recipe_pass ==
    /\ pc = "load"
    /\ loop_condition
    /\ \E g \in (IF pass(Garbage0).file.fail THEN Garbage ELSE {Garbage0}) :
        LET r == pass(g) IN
        IF r.crash
        THEN /\ pc' = "crashed"
             /\ UNCHANGED <<mem, locals>>
        ELSE /\ pc' = pc
             /\ file' = r.file
             /\ size' = r.size
             /\ character' = r.character
             /\ mem' = load_copy(r.id, r.n, r.data)
    /\ UNCHANGED <<recipe, fs, op, ret, memAtCall, saved, lifecycle, reinit, io>>

\* The loop ends: file.close(); return true;
load_recipe_return ==
    /\ pc = "load"
    /\ ~loop_condition
    /\ pc' = "idle"
    /\ ret' = "true"
    /\ file' = NoFile
    /\ size' = Unset
    /\ character' = UnsetChar
    /\ UNCHANGED <<recipe, mem, fs, op, memAtCall, saved, lifecycle, reinit, io>>

(***************************************************************************)
(* The environment: something else puts a hand-written record at the path, *)
(* removes the file or makes a directory there.                            *)
(***************************************************************************)
CraftedEntries == [id : Ids, val : CraftedValues]

\* An entry that gives "a" another payload than CraftedEntries does.
RewrittenEntries == {[id |-> <<97>>, val |-> <<0, 0>>]}

RECURSIVE SeqsUpTo(_, _)
SeqsUpTo(S, n) ==
    IF n = 0 THEN {<<>>}
    ELSE LET shorter == SeqsUpTo(S, n - 1) IN
         shorter \cup {Append(s, x) : s \in {t \in shorter : Len(t) = n - 1}, x \in S}

\* Places inside an entry where a file may end: inside the id length, the
\* id, the value length, the value.
Cuts(e) ==
    {SizeT \div 2,
     SizeT + Len(e.id) - 1,
     SizeT + Len(e.id) + SizeT \div 2,
     SizeT + Len(e.id) + SizeT + Len(e.val) - 1}

\* Hand-written records, and those that end with a second entry for "a".
CraftedFiles ==
    {FileNode(record_bytes(ents), ents, FALSE, FALSE) :
        ents \in SeqsUpTo(CraftedEntries, MaxCrafted)}
    \cup {FileNode(record_bytes(Append(ents, e)), Append(ents, e), FALSE, FALSE) :
            ents \in {t \in SeqsUpTo(CraftedEntries, MaxCrafted - 1) :
                        \E i \in 1..Len(t) : t[i].id = <<97>>},
            e \in RewrittenEntries}

\* An empty file the Recipe may read and not write.
ReadOnlyFiles == {FileNode(<<>>, <<>>, FALSE, TRUE)}

\* Hand-written records of entries with different identifiers that end k
\* bytes into their last entry.
TruncatedFiles ==
    UNION {
        LET whole == SubSeq(ents, 1, Len(ents) - 1)
            last == ents[Len(ents)]
        IN  {FileNode(record_bytes(whole)
                        \o SubSeq(entry_bytes(last.id, last.val), 1, k),
                      whole, TRUE, FALSE) : k \in Cuts(last)}
        : ents \in {t \in SeqsUpTo(CraftedEntries, MaxCrafted) \ {<<>>} :
                      \A i, j \in 1..Len(t) : i # j => t[i].id # t[j].id}}

Environment(f) ==
    /\ pc = "idle"
    /\ fs' = f
    /\ op' = "other"
    /\ ret' = Void
    /\ memAtCall' = NoMem
    /\ saved' = NoSave
    /\ io' = "none"
    /\ UNCHANGED <<recipe, mem, pc, locals, lifecycle, reinit>>

\* The path the environment acts on: the one the Recipe names, once it has
\* a name and lies in a folder.
EnvPath == parent_path(get_path) # <<>> /\ _name # <<>>

external_write(node) ==
    /\ EnvPath
    /\ ~IsDir(get_path)
    /\ Environment(Put(create_directories(fs, parent_path(get_path), "none").fs,
                       get_path, node))

external_remove ==
    /\ EnvPath
    /\ exists(get_path)
    /\ Environment([q \in DOMAIN fs \ {get_path} |-> fs[q]])

external_mkdir ==
    /\ EnvPath
    /\ ~exists(get_path)
    /\ Environment(Put(create_directories(fs, parent_path(get_path), "none").fs,
                       get_path, Dir))

(***************************************************************************)
(* The specification.                                                      *)
(***************************************************************************)
Next ==
    \/ init
    \/ stop
    \/ \E n \in NameArgs : set_name(n)
    \/ \E f \in FolderArgs : set_folder(f)
    \/ \E e \in ExtensionArgs : set_extension(e)
    \/ is_init
    \/ call_get_path
    \/ \E id \in Ids, var \in Vars :
          /\ id \in DOMAIN _map \/ var \notin Bound
          /\ add_variable(id, var, SizeOf[var])
    \/ \E id \in Ids : remove_variable(id)
    \/ \E var \in Vars : \E bytes \in ValuesOf(SizeOf[var]) : assign(var, bytes)
    \/ save_recipe
    \/ load_recipe_call
    \/ load_recipe_pass
    \/ load_recipe_return
    \/ \E node \in CraftedFiles \cup TruncatedFiles \cup ReadOnlyFiles :
          external_write(node)
    \/ external_remove
    \/ external_mkdir

Spec == Init /\ [][Next]_vars

\* The calls around load_recipe alone: a Recipe that is initialized, has
\* variables added and is loaded, while the environment writes and removes
\* the file.
LoadNext ==
    \/ init
    \/ \E id \in Ids, var \in Vars :
          /\ id \in DOMAIN _map \/ var \notin Bound
          /\ add_variable(id, var, SizeOf[var])
    \/ load_recipe_call
    \/ load_recipe_pass
    \/ load_recipe_return
    \/ \E node \in CraftedFiles : external_write(node)
    \/ external_remove

\* Whether a pass of the loop can be taken and changes something: it ends
\* the process, or moves the stream, or sets a local or a variable.
PassEnabled ==
    /\ pc = "load"
    /\ loop_condition
    /\ \E g \in (IF pass(Garbage0).file.fail THEN Garbage ELSE {Garbage0}) :
          LET r == pass(g) IN
          IF r.crash THEN TRUE
          ELSE <<r.file, r.size, r.character>> # <<file, size, character>>
                  \/ load_copy(r.id, r.n, r.data) # mem

\* A call of load_recipe keeps running: its loop takes the next pass, and
\* returns when its condition is false.  This is weak fairness of the two
\* steps, with the enabling condition of the pass written out.
FairSpec ==
    /\ Init
    /\ [][LoadNext]_vars
    /\ \/ []<>(~PassEnabled)
       \/ []<><<load_recipe_pass>>_<<pc, locals, mem>>
    /\ WF_pc(load_recipe_return)

(***************************************************************************)
(* Properties.                                                             *)
(***************************************************************************)
\* The last call was a load_recipe that got past its guard and is over: it
\* returned, or it ended the process.
LoadDone == op = "load_recipe" /\ pc # "load" /\ _init

\* It returned true.
LoadReturnedTrue == pc = "idle" /\ ret = "true"

Zeros(n) == [i \in 1..n |-> 0]

\* The bytes of the registered variable id, in mem m.
Held(m, id) == SubSeq(m[_map[id].ptr], 1, _map[id].size)

\* C1 (round trip): on an initialized store, save_recipe, then zeroing every
\* registered variable, then load_recipe returns true and leaves every
\* registered variable with the bytes it held when save_recipe was called.
C1_RoundTrip ==
    (/\ LoadDone
     /\ saved.on
     /\ \A id \in DOMAIN _map :
            Held(memAtCall, id) = Zeros(_map[id].size))
    => /\ LoadReturnedTrue
       /\ \A id \in DOMAIN _map : Held(mem, id) = Held(saved.mem, id)

\* A save_recipe that returned true on a file it could not write, and a
\* load_recipe that returned true with a zeroed variable still zero.
C1_Witness ==
    /\ LoadDone
    /\ LoadReturnedTrue
    /\ saved.on
    /\ IsFile(get_path)
    /\ fs[get_path].ro
    /\ \E id \in DOMAIN _map :
           /\ Held(memAtCall, id) = Zeros(_map[id].size)
           /\ Held(mem, id) # Held(saved.mem, id)

\* C2 (reinitialization requirement): once a setter has run, is_init() is
\* false and every save_recipe and load_recipe returns false, until an init
\* returns true.
C2_Reinitialize ==
    reinit => /\ ~_init
              /\ op \in {"save_recipe", "load_recipe"} =>
                    (pc = "idle" /\ ret = "false")

\* A save_recipe refused after a setter, with a file at the path and a
\* variable to write.
C2_Witness ==
    /\ reinit
    /\ op = "save_recipe"
    /\ ret = "false"
    /\ IsFile(get_path)
    /\ DOMAIN _map # {}

\* C3 (the flag): is_init() is true exactly when the last of construction,
\* init, stop and the setters was an init that returned true; no other call
\* changes it.
C3_Flag == _init = lifecycle

\* The flag still set after add_variable, save_recipe and a load_recipe that
\* ran to its end.
C3_Witness ==
    /\ _init
    /\ lifecycle
    /\ LoadDone
    /\ LoadReturnedTrue
    /\ saved.on
    /\ DOMAIN _map # {}

\* C4 (precondition error): with the flag false, save_recipe and load_recipe
\* return false and leave the file system and the variables as they were.
C4_Refused ==
    [][(pc = "idle" /\ ~_init /\ op' \in {"save_recipe", "load_recipe"})
        => (ret' = "false" /\ fs' = fs /\ mem' = mem /\ pc' = "idle")]_vars

\* A load_recipe refused with a record at the path that has an entry for a
\* registered identifier.
C4_Witness ==
    /\ op = "load_recipe"
    /\ ~_init
    /\ ret = "false"
    /\ IsFile(get_path)
    /\ \E i \in 1..Len(fs[get_path].ents) :
           fs[get_path].ents[i].id \in DOMAIN _map

\* The file at the path is a record of complete entries, Rec.
WellFormed == IsFile(get_path) /\ ~fs[get_path].cut
Rec == fs[get_path].ents

\* Entry i of the file carries id with the length id is registered with.
Matches(i, id) == Rec[i].id = id /\ Len(Rec[i].val) = _map[id].size

\* Entry i carries a registered identifier with another length.
Mismatch(i) == Rec[i].id \in DOMAIN _map /\ ~Matches(i, Rec[i].id)

\* Entry i is the last of the file that matches its identifier.
LastMatch(i) ==
    /\ Rec[i].id \in DOMAIN _map
    /\ Matches(i, Rec[i].id)
    /\ \A k \in (i + 1)..Len(Rec) : ~Matches(k, Rec[i].id)

\* C5 (size-mismatch guard): on a well-formed file, an entry whose
\* identifier is registered with another length does not change that
\* variable (which keeps its bytes unless another entry matches it), and
\* the entries after it are decoded where they start: load_recipe returns
\* true and a later entry that matches a variable is copied into it.
C5_SizeMismatch ==
    (LoadDone /\ WellFormed) =>
        \A i \in 1..Len(Rec) :
            Mismatch(i) =>
                /\ LoadReturnedTrue
                /\ (\A k \in 1..Len(Rec) : ~Matches(k, Rec[i].id))
                      => Held(mem, Rec[i].id) = Held(memAtCall, Rec[i].id)
                /\ \A j \in (i + 1)..Len(Rec) :
                      LastMatch(j) => Held(mem, Rec[j].id) = Rec[j].val

\* An entry of another length than its variable, left alone, followed by an
\* entry that was copied.
C5_Witness ==
    /\ LoadDone
    /\ LoadReturnedTrue
    /\ WellFormed
    /\ \E i \in 1..Len(Rec) : \E j \in (i + 1)..Len(Rec) :
          /\ Mismatch(i)
          /\ Held(mem, Rec[i].id) # SubSeq(Rec[i].val, 1, _map[Rec[i].id].size)
          /\ LastMatch(j)
          /\ Held(memAtCall, Rec[j].id) # Rec[j].val
          /\ Held(mem, Rec[j].id) = Rec[j].val

\* C6 (unknown-entry tolerance): on a well-formed file with entries whose
\* identifiers are not registered, load_recipe returns true, and each
\* registered variable holds what it held or the payload of an entry that
\* carries its own identifier and length.
C6_UnknownEntry ==
    (/\ LoadDone
     /\ WellFormed
     /\ \E i \in 1..Len(Rec) : Rec[i].id \notin DOMAIN _map)
    => /\ LoadReturnedTrue
       /\ \A id \in DOMAIN _map :
             \/ Held(mem, id) = Held(memAtCall, id)
             \/ \E j \in 1..Len(Rec) : Matches(j, id) /\ Held(mem, id) = Rec[j].val

\* An unregistered entry whose payload has the length of a registered
\* variable, which holds something else after the load.
C6_Witness ==
    /\ LoadDone
    /\ LoadReturnedTrue
    /\ WellFormed
    /\ \E i \in 1..Len(Rec) :
          /\ Rec[i].id \notin DOMAIN _map
          /\ \E id \in DOMAIN _map :
                /\ _map[id].size = Len(Rec[i].val)
                /\ Held(mem, id) # Rec[i].val

RECURSIVE Concat(_)
Concat(ss) == IF ss = <<>> THEN <<>> ELSE Head(ss) \o Concat(Tail(ss))

\* The entry of a registered variable: the length of its identifier, the
\* identifier, its registered length, its bytes, and a zero byte when the
\* two lengths add up to an odd number.
EntryOf(id) ==
    Word(Len(id)) \o id \o Word(_map[id].size) \o Held(mem, id)
        \o (IF (Len(id) + _map[id].size) % 2 = 1 THEN <<0>> ELSE <<>>)

\* C7 (full overwrite): after a save_recipe on an initialized store that
\* could write the file, the file is one entry for each registered variable
\* and nothing else.
C7_Overwrite ==
    (op = "save_recipe" /\ ret = "true" /\ io = "written") =>
        /\ IsFile(get_path)
        /\ \E o \in Orders(DOMAIN _map) :
              fs[get_path].data = Concat([i \in 1..Len(o) |-> EntryOf(o[i])])

\* A save of two variables, one of them not zero.
C7_Witness ==
    /\ op = "save_recipe"
    /\ ret = "true"
    /\ io = "written"
    /\ Cardinality(DOMAIN _map) = 2
    /\ \E id \in DOMAIN _map : Held(mem, id) # Zeros(_map[id].size)

\* C8 (merge on load): on a well-formed file, load_recipe leaves every
\* registered variable whose identifier is not in the file as it was.
C8_Frame ==
    (LoadDone /\ WellFormed) =>
        \A id \in DOMAIN _map :
            (\A i \in 1..Len(Rec) : Rec[i].id # id)
                => mem[_map[id].ptr] = memAtCall[_map[id].ptr]

\* A load that changed one variable and left another, not in the file,
\* with the bytes the application gave it.
C8_Witness ==
    /\ LoadDone
    /\ LoadReturnedTrue
    /\ WellFormed
    /\ \E id \in DOMAIN _map :
          /\ \A i \in 1..Len(Rec) : Rec[i].id # id
          /\ Held(mem, id) # Zeros(_map[id].size)
    /\ mem # memAtCall

\* C9 (truncated file): when the file ends inside an entry, load_recipe on
\* an initialized store returns false.
C9_Truncated ==
    (LoadDone /\ IsFile(get_path) /\ fs[get_path].cut)
        => (pc = "idle" /\ ret = "false")

\* A load of a truncated file that returned true and changed a variable.
C9_Witness ==
    /\ LoadDone
    /\ LoadReturnedTrue
    /\ IsFile(get_path)
    /\ fs[get_path].cut
    /\ mem # memAtCall

\* C10 (init fails on a file-system error): when the path does not exist
\* and the directories or the file cannot be created, init returns false
\* and is_init() is false.
C10_InitFails ==
    (op = "init" /\ io \in {"mkdir_failed", "create_failed"})
        => (ret = "false" /\ ~_init)

\* An init that returned true and made no file.
C10_Witness ==
    /\ op = "init"
    /\ io = "create_failed"
    /\ ret = "true"
    /\ _init
    /\ ~exists(get_path)

C12_EmptyName ==
    [][(pc = "idle" /\ op' = "init" /\ _name = <<>>)
          => (ret' = "false" /\ ~_init' /\ fs' = fs)]_vars

\* An init refused for its empty name, with a folder and an extension set.
C12_Witness ==
    /\ op = "init"
    /\ io = "no_name"
    /\ ret = "false"
    /\ _name = <<>>
    /\ _folder # <<>>
    /\ _extension # <<>>
    /\ ~exists(get_path)
\* C13 (duplicate add): add_variable of an identifier that is not registered
\* returns true and binds it to the address and length given; of one that
\* is registered it returns false and leaves the registry as it is.
C13_DuplicateAdd ==
    [][\A id \in Ids, var \in Vars :
          (op' = "add_variable" /\ add_variable(id, var, SizeOf[var])) =>
              IF id \in DOMAIN _map
              THEN ret' = "false" /\ _map' = _map
              ELSE /\ ret' = "true"
                   /\ DOMAIN _map' = DOMAIN _map \cup {id}
                   /\ _map'[id] = [ptr |-> var, size |-> SizeOf[var]]
                   /\ \A k \in DOMAIN _map : _map'[k] = _map[k]]_vars

\* An add_variable refused for an identifier that is registered.
C13_Witness ==
    /\ op = "add_variable"
    /\ ret = "false"
    /\ DOMAIN _map # {}

\* C14 (remove): remove_variable of a registered identifier returns true
\* and erases its entry and no other; of one that is not registered it
\* returns false and leaves the registry as it is.  What is not registered
\* is not in a file save_recipe wrote, and no load_recipe writes to a
\* variable that no identifier is bound to.
C14_Remove ==
    /\ [][\A id \in Ids :
            (op' = "remove_variable" /\ remove_variable(id)) =>
                IF id \in DOMAIN _map
                THEN /\ ret' = "true"
                     /\ DOMAIN _map' = DOMAIN _map \ {id}
                     /\ \A k \in DOMAIN _map' : _map'[k] = _map[k]
                ELSE ret' = "false" /\ _map' = _map]_vars
    /\ []((op = "save_recipe" /\ io = "written") =>
            {Rec[i].id : i \in 1..Len(Rec)} = DOMAIN _map)
    /\ [](LoadDone => \A v \in Vars \ Bound : mem[v] = memAtCall[v])

\* A remove_variable that returned true and left another entry.
C14_Witness ==
    /\ op = "remove_variable"
    /\ ret = "true"
    /\ DOMAIN _map # {}
\* Whether the lengths of an entry add up to an odd number, the bytes it
\* takes in a file with its padding, and where entry i of a record starts.
Odd(e) == (Len(e.id) + Len(e.val)) % 2 = 1
EntryLen(e) ==
    SizeT + Len(e.id) + SizeT + Len(e.val) + (IF Odd(e) THEN 1 ELSE 0)
RECURSIVE Offset(_, _)
Offset(ents, i) ==
    IF i = 1 THEN 0 ELSE Offset(ents, i - 1) + EntryLen(ents[i - 1])

\* C15 (padding): in a file save_recipe wrote, every entry starts where the
\* entries before it end, each with one padding byte after it when its
\* lengths add up to an odd number and none otherwise, and the file ends
\* with the last; and load_recipe decodes the entry after an odd one with
\* its identifier and value.
C15_Padding ==
    /\ (op = "save_recipe" /\ io = "written") =>
          LET d == fs[get_path].data IN
          /\ Len(d) = Offset(Rec, Len(Rec) + 1)
          /\ \A i \in 1..Len(Rec) :
                LET o == Offset(Rec, i)
                    e == Rec[i]
                    v == o + SizeT + Len(e.id)
                IN  /\ SubSeq(d, o + 1, o + SizeT) = Word(Len(e.id))
                    /\ SubSeq(d, o + SizeT + 1, v) = e.id
                    /\ SubSeq(d, v + 1, v + SizeT) = Word(Len(e.val))
                    /\ SubSeq(d, v + SizeT + 1, v + SizeT + Len(e.val)) = e.val
    /\ (LoadDone /\ WellFormed) =>
          \A i \in 1..(Len(Rec) - 1) :
              (Odd(Rec[i]) /\ LastMatch(i + 1)) =>
                  /\ LoadReturnedTrue
                  /\ Held(mem, Rec[i + 1].id) = Rec[i + 1].val

\* A file of two entries that save_recipe wrote, the first with a padding
\* byte, and a load_recipe that restored the variable of the second.
C15_Witness ==
    /\ LoadDone
    /\ LoadReturnedTrue
    /\ WellFormed
    /\ saved.on
    /\ Len(Rec) = 2
    /\ Odd(Rec[1])
    /\ LastMatch(2)
    /\ Held(memAtCall, Rec[2].id) # Rec[2].val
    /\ Held(mem, Rec[2].id) = Rec[2].val
\* C16 (path normalization): in every state get_path() is folder + name +
\* extension, where a folder that is not empty ends with exactly one
\* separator and an extension that is not empty begins with exactly one dot.
C16_Normalized ==
    /\ get_path = _folder \o _name \o _extension
    /\ _folder # <<>> =>
          /\ _folder[Len(_folder)] = Sep
          /\ Len(_folder) > 1 => _folder[Len(_folder) - 1] # Sep
    /\ _extension # <<>> =>
          /\ _extension[1] = Dot
          /\ Len(_extension) > 1 => _extension[2] # Dot

\* A Recipe constructed with a folder that has no separator, whose init
\* looked for a file beside the folder and not in it.
C16_Witness ==
    /\ _folder # <<>>
    /\ _folder[Len(_folder)] # Sep
    /\ op = "init"
    /\ parent_path(get_path) = <<>>
\* C17 (save reports what happened): save_recipe returns true only when
\* the recipe was saved: the file at the path then holds the entries of
\* the registered variables.
C17_SavedOnly ==
    (op = "save_recipe" /\ ret = "true") =>
        /\ IsFile(get_path)
        /\ Len(fs[get_path].data) =
              Offset(fs[get_path].ents, Len(fs[get_path].ents) + 1)
        /\ \A id \in DOMAIN _map :
              \E i \in 1..Len(Rec) : Rec[i] = [id |-> id, val |-> Held(mem, id)]

\* A save_recipe that returned true on a file it could not open for
\* writing, which is as it was.
C17_Witness ==
    /\ op = "save_recipe"
    /\ ret = "true"
    /\ io = "open_failed"
    /\ IsFile(get_path)
    /\ fs[get_path].ro
    /\ fs[get_path].data = <<>>
    /\ DOMAIN _map # {}
\* C18 (load_recipe terminates): on an initialized store load_recipe runs
\* to its end and returns, whatever is at the path.
C18_Terminates == (pc = "load") ~> (pc = "idle")

\* A load_recipe with nothing at the path, after a pass of its loop: the
\* stream has failed and is never at its end.
C18_Witness ==
    /\ pc = "load"
    /\ ~exists(get_path)
    /\ size.set
    /\ file.fail
    /\ ~file.eof
    /\ loop_condition

\* C19 (load copy rule): on a well-formed file load_recipe returns true,
\* and every registered variable with entries of its identifier and length
\* in the file holds the payload of the last of them.
C19_CopyRule ==
    (LoadDone /\ WellFormed) =>
        /\ LoadReturnedTrue
        /\ \A j \in 1..Len(Rec) :
              LastMatch(j) => Held(mem, Rec[j].id) = Rec[j].val

\* Two entries for one variable with different payloads, and the variable
\* with the second after the load.
C19_Witness ==
    /\ LoadDone
    /\ LoadReturnedTrue
    /\ WellFormed
    /\ \E i \in 1..Len(Rec) : \E j \in (i + 1)..Len(Rec) :
          /\ Rec[i].id = Rec[j].id
          /\ Rec[i].val # Rec[j].val
          /\ LastMatch(j)
          /\ Held(memAtCall, Rec[j].id) # Rec[j].val
          /\ Held(mem, Rec[j].id) = Rec[j].val

\* C20 (the exists branch): init marks the store initialized through its
\* exists check only when what exists at the path is a file.
C20_RegularFile ==
    (op = "init" /\ io = "exists" /\ _init) => IsFile(get_path)

\* An init that returned true on a directory.
C20_Witness ==
    /\ op = "init"
    /\ ret = "true"
    /\ _init
    /\ IsDir(get_path)

\* C21 (no partial or garbage copy): load_recipe writes into a registered
\* variable only the complete payload of an entry of the file; on a file
\* that ends inside an entry, every registered variable holds what it held
\* at the call or the payload of a complete entry that carries its
\* identifier and length.
C21_NoGarbage ==
    (LoadDone /\ IsFile(get_path) /\ fs[get_path].cut) =>
        \A id \in DOMAIN _map :
            \/ Held(mem, id) = Held(memAtCall, id)
            \/ \E j \in 1..Len(Rec) : Matches(j, id) /\ Held(mem, id) = Rec[j].val

\* A file that ends before the value length of its only entry, and a load
\* that returned true with a registered variable changed: the length of the
\* identifier served as the length of the value.
C21_Witness ==
    /\ LoadDone
    /\ LoadReturnedTrue
    /\ IsFile(get_path)
    /\ fs[get_path].cut
    /\ Rec = <<>>
    /\ Len(fs[get_path].data) < 2 * SizeT
    /\ \E id \in DOMAIN _map : Held(mem, id) # Held(memAtCall, id)

=============================================================================
